---- MODULE Spec2Model ----
(***************************************************************************)
(* hello-worms (src/src/lib.rs): twelve worms wandering over an 800x600    *)
(* canvas, advanced by World::tick and painted by World::draw from a       *)
(* requestAnimationFrame callback that re-schedules itself.                *)
(*                                                                         *)
(* Numbers.  Every f64 of the program is represented by an integer count   *)
(* of 1/Scale units (Scale = 1200).  With this unit every literal of the   *)
(* source (0.03, 0.04, 1.2, 2.0, 3.0, 3.7, 6.28, 10.0, 20.0, 360.0) and    *)
(* every seed i/12 is represented exactly.  Products are rounded to the    *)
(* nearest unit (Mul), and f64::sin / f64::cos are computed by Bhaskara's  *)
(* rational approximation on the reduced angle (Sin, Cos).  NaN and the    *)
(* infinities are not represented.                                         *)
(***************************************************************************)
EXTENDS Integers, Sequences, FiniteSets, TLC

VARIABLES
    worms,      \* World.worms: sequence of Worm records
    width,      \* World.width  (in SpecWorm: the width argument of the last update)
    height,     \* World.height (in SpecWorm: the height argument of the last update)
    time,       \* World.time   (in SpecWorm: the time argument of the last update)
    pending,    \* callbacks registered with the host's requestAnimationFrame
    pc,         \* position of the animation callback (the closure of main)
    borrowed,   \* borrow flag of the RefCell<World>
    draws,      \* history: number of World::draw calls made
    heads       \* history: per worm, the head recorded by each update, oldest first

vars == <<worms, width, height, time, pending, pc, borrowed, draws, heads>>

-----------------------------------------------------------------------------
(* Bounds of the model *)

MaxTime == 50        \* frames the host delivers
MaxUpdates == 3      \* updates applied to a stand-alone worm

-----------------------------------------------------------------------------
(* Fixed-point arithmetic standing for f64 *)

Scale == 1200

\* the literal n/d of the source
Dec(n, d) == (n * Scale) \div d

\* a * b, rounded to the nearest unit
Mul(a, b) == (a * b + Scale \div 2) \div Scale

Pi == 3770
TwoPi == 7540
HalfPi == 1885

\* sin on [0, Pi]: 16 x (Pi - x) / (5 Pi^2 - 4 x (Pi - x))
SinHalf(x) ==
    LET p == x * (Pi - x)
        d == (5 * Pi * Pi) \div 4 - p
    IN  ((p \div 16) * 4 * Scale) \div (d \div 16)

Sin(a) ==
    LET r == a % TwoPi
    IN  IF r <= Pi THEN SinHalf(r) ELSE 0 - SinHalf(r - Pi)

Cos(a) == Sin(a + HalfPi)

-----------------------------------------------------------------------------
(* Constants of the program *)

NUM_WORMS == 12
WORM_SEGMENTS == 20
SEGMENT_SPACING == Dec(10, 1)
margin == Dec(20, 1)
CanvasWidth == Dec(800, 1)
CanvasHeight == Dec(600, 1)

-----------------------------------------------------------------------------
(* Worm *)

\* the initial trail: WORM_SEGMENTS points laid out backwards along the heading
InitialSegments(x, y, angle) ==
    [i \in 1..WORM_SEGMENTS |->
        LET offset == (i - 1) * SEGMENT_SPACING
        IN  <<x - Mul(Cos(angle), offset), y - Mul(Sin(angle), offset)>>]

WormNew(x, y, hue, seed) ==
    LET angle == Mul(seed, Dec(628, 100))
    IN  [x |-> x,
         y |-> y,
         angle |-> angle,
         turn_speed |-> Dec(3, 100) + Mul(seed, Dec(4, 100)),
         speed |-> Dec(12, 10) + Mul(seed, Dec(1, 1)),
         segments |-> InitialSegments(x, y, angle),
         hue |-> hue,
         wobble_phase |-> Mul(seed, Dec(628, 100)),
         wobble_rate |-> Dec(2, 1) + Mul(seed, Dec(3, 1))]

\* the heading after this tick's wobble
Wobble(w, t) ==
    w.angle + Mul(Sin(Mul(t, w.wobble_rate) + w.wobble_phase), w.turn_speed)

\* the head coordinates after this tick's movement, before the wrap
MoveXNone(w, angle) == w.x
MoveX(w, angle) == w.x + Mul(Cos(angle), w.speed)
MoveY(w, angle) == w.y + Mul(Sin(angle), w.speed)

\* if c < -margin { c = dim + margin }
WrapLowOff(c, dim) == IF c < 0 - margin THEN dim + margin + Scale ELSE c
WrapLow(c, dim) == IF c < 0 - margin THEN dim + margin ELSE c

\* if c > dim + margin { c = -margin }
WrapHighNone(c, dim) == c
WrapHigh(c, dim) == IF c > dim + margin THEN 0 - margin ELSE c

\* the two checks of one axis, in the order of the source
Wrap(c, dim) == WrapHigh(WrapLow(c, dim), dim)

\* segments.insert(0, e)
InsertBack(s, e) == Append(s, e)
InsertOverwrite(s, e) == [s EXCEPT ![1] = e]
Insert0(s, e) == <<e>> \o s

\* segments.truncate(WORM_SEGMENTS)
TruncateNone(s) == s
Truncate(s) == IF Len(s) > WORM_SEGMENTS THEN SubSeq(s, 1, WORM_SEGMENTS) ELSE s

Update(w, wd, ht, t) ==
    LET angle == Wobble(w, t)
        x == Wrap(MoveX(w, angle), wd)
        y == Wrap(MoveY(w, angle), ht)
    IN  [w EXCEPT !.angle = angle,
                  !.x = x,
                  !.y = y,
                  !.segments = Truncate(Insert0(w.segments, <<x, y>>))]

-----------------------------------------------------------------------------
(* World *)

\* seed = i / NUM_WORMS, for i in 0..NUM_WORMS-1
Seed(i) == Dec(i, NUM_WORMS)

HueOff(seed) == Mul(seed, Dec(300, 1))
Hue(seed) == Mul(seed, Dec(360, 1))

WorldWorms(wd, ht) ==
    [k \in 1..NUM_WORMS |->
        LET seed == Seed(k - 1)
            x == Mul(seed, wd)
            y == Mul(Mul(seed, Dec(37, 10)) % Dec(1, 1), ht)
        IN  WormNew(x, y, Hue(seed), seed)]

\* self.time += 1.0
TickTimeTwice(t) == t + 2 * Scale
TickTime(t) == t + Scale

\* the head each worm records in this tick, appended to the history
Record(ws) == [i \in DOMAIN ws |-> Append(heads[i], <<ws[i].x, ws[i].y>>)]

-----------------------------------------------------------------------------
(* The animation loop of main *)

\* window.request_animation_frame(f): one more callback registered
RequestForgotten(p) == p
RequestAnimationFrame(p) == p + 1

\* after main: the world is built and the first callback is requested
Init ==
    /\ width = CanvasWidth
    /\ height = CanvasHeight
    /\ worms = WorldWorms(CanvasWidth, CanvasHeight)
    /\ time = 0
    /\ pending = RequestAnimationFrame(0)
    /\ pc = "idle"
    /\ borrowed = FALSE
    /\ draws = 0
    /\ heads = [i \in 1..NUM_WORMS |-> <<>>]

\* the host runs a registered callback at a display refresh
Frame ==
    /\ pc = "idle"
    /\ pending > 0
    /\ time < MaxTime * Scale
    /\ pending' = pending - 1
    /\ pc' = "entered"
    /\ UNCHANGED <<worms, width, height, time, borrowed, draws, heads>>

\* let mut world = w.borrow_mut();   (panics when already borrowed)
Borrow ==
    /\ pc = "entered"
    /\ IF borrowed
         THEN pc' = "panicked" /\ UNCHANGED borrowed
         ELSE pc' = "borrowed" /\ borrowed' = TRUE
    /\ UNCHANGED <<worms, width, height, time, pending, draws, heads>>

\* world.tick()
Tick ==
    /\ pc = "borrowed"
    /\ time' = TickTime(time)
    /\ worms' = [i \in DOMAIN worms |-> Update(worms[i], width, height, time')]
    /\ heads' = Record(worms')
    /\ pc' = "ticked"
    /\ UNCHANGED <<width, height, pending, borrowed, draws>>

\* world.draw(&ctx): paints, and changes nothing of the World
Draw ==
    /\ pc = "ticked"
    /\ draws' = draws + 1
    /\ pc' = "drawn"
    /\ UNCHANGED <<worms, width, height, time, pending, borrowed, heads>>

\* request_animation_frame(f.borrow().as_ref().unwrap())
Request ==
    /\ pc = "drawn"
    /\ pending' = RequestAnimationFrame(pending)
    /\ pc' = "requested"
    /\ UNCHANGED <<worms, width, height, time, borrowed, draws, heads>>

\* the closure returns: the RefMut is dropped
Return ==
    /\ pc = "requested"
    /\ borrowed' = FALSE
    /\ pc' = "idle"
    /\ UNCHANGED <<worms, width, height, time, pending, draws, heads>>

Next == Frame \/ Borrow \/ Tick \/ Draw \/ Request \/ Return

Spec == Init /\ [][Next]_vars

-----------------------------------------------------------------------------
(* A single worm, built by Worm::new and driven by Worm::update *)

WormXs == {0 - margin - Scale, 0 - margin, 0, margin, margin + Scale,
           CanvasWidth + margin, CanvasWidth + margin + Scale}
WormYs == {0 - margin - Scale, Dec(300, 1), CanvasHeight + margin + Scale}
WormSeeds == {Seed(0), Seed(3), Seed(6), Seed(9)}
WormDims == {<<CanvasWidth, CanvasHeight>>, <<0, 0>>}
WormTimes == {Dec(1, 1), Dec(7, 1)}

InitWorm ==
    /\ \E x \in WormXs, y \in WormYs, seed \in WormSeeds :
          worms = <<WormNew(x, y, Hue(seed), seed)>>
    /\ \E d \in WormDims : width = d[1] /\ height = d[2]
    /\ time = 0
    /\ pending = 0
    /\ pc = "idle"
    /\ borrowed = FALSE
    /\ draws = 0
    /\ heads = << <<>> >>

\* worm.update(wd, ht, t)
UpdateWorm(wd, ht, t) ==
    /\ Len(heads[1]) < MaxUpdates
    /\ worms' = <<Update(worms[1], wd, ht, t)>>
    /\ heads' = Record(worms')
    /\ width' = wd
    /\ height' = ht
    /\ time' = t
    /\ UNCHANGED <<pending, pc, borrowed, draws>>

NextWorm == \E d \in WormDims, t \in WormTimes : UpdateWorm(d[1], d[2], t)

SpecWorm == InitWorm /\ [][NextWorm]_vars

-----------------------------------------------------------------------------
(* Properties *)

\* C1: every worm's trail has exactly WORM_SEGMENTS entries in every
\* reachable state of the world: right after Worm::new and after every update.
TrailLengthIsN ==
    \A i \in DOMAIN worms : Len(worms[i].segments) = WORM_SEGMENTS

\* more updates than the trail has entries have been made
TrailLengthWitness ==
    /\ pc = "ticked"
    /\ time > WORM_SEGMENTS * Scale
    /\ Len(worms[1].segments) = WORM_SEGMENTS

\* C2: after every update the head lies within [-margin, width + margin] x
\* [-margin, height + margin], whatever the worm's state before the call.
HeadWithinMargins ==
    \A i \in DOMAIN worms :
        Len(heads[i]) > 0 =>
            /\ 0 - margin <= worms[i].x /\ worms[i].x <= width + margin
            /\ 0 - margin <= worms[i].y /\ worms[i].y <= height + margin

\* a worm built outside the left margin has been brought back by its first update
HeadWithinMarginsWitness ==
    /\ Len(heads[1]) = 1
    /\ worms[1].segments[2][1] = 0 - margin - Scale
    /\ worms[1].x = width + margin
    /\ width = CanvasWidth

\* C3: trail entry 0 is the current head, after Worm::new and after every
\* update, a wrapping update included.
HeadIsTrailFront ==
    \A i \in DOMAIN worms : worms[i].segments[1] = <<worms[i].x, worms[i].y>>

\* the last update wrapped the head from below the bottom margin to the top
HeadIsTrailFrontWitness ==
    /\ Len(heads[1]) = 2
    /\ worms[1].y = 0 - margin
    /\ worms[1].segments[2][2] > height
    /\ worms[1].segments[1] = <<worms[1].x, worms[1].y>>

\* C4: World.time starts at 0, is increased by exactly 1.0 by each tick and is
\* changed by no other step; so it always equals the number of ticks made.
TimeCountsTicks ==
    /\ time = 0
    /\ [][IF pc = "borrowed" THEN time' = time + Scale ELSE time' = time]_vars
    /\ [](time = Scale * Len(heads[1]))

\* three whole frames have been ticked and drawn
TimeCountsTicksWitness ==
    /\ pc = "drawn"
    /\ draws = 3
    /\ time = 3 * Scale

\* C5 as stated: a worm at x = width + margin + 1 before update is at
\* x = -margin after it, for every heading and speed.
WrapFromBeyondRightAlways ==
    [][worms[1].x = width' + margin + Scale => worms'[1].x = 0 - margin]_vars

\* C5 amended: a worm at x = width + margin + 1 before update is at x = -margin
\* after it whenever the moved coordinate x + cos(angle) * speed (with the
\* wobbled angle) is still greater than width + margin; when the worm heads
\* left by 1 or more in this tick, the head stays at the moved coordinate and
\* is not wrapped.
WrapFromBeyondRight ==
    [][worms[1].x = width' + margin + Scale =>
        LET c == worms[1].x + Mul(Cos(worms'[1].angle), worms[1].speed)
        IN  worms'[1].x = IF c > width' + margin THEN 0 - margin ELSE c]_vars

\* the first update of a worm built at x = width + margin + 1 wrapped it
WrapFromBeyondRightWitness ==
    /\ Len(heads[1]) = 1
    /\ worms[1].segments[2][1] = width + margin + Scale
    /\ worms[1].x = 0 - margin

\* C6: the world always holds NUM_WORMS worms, and the worm at index i (from 0)
\* has hue 30 i.
TwelveWormsWithHues ==
    /\ Len(worms) = NUM_WORMS
    /\ \A k \in 1..NUM_WORMS : worms[k].hue = Dec((k - 1) * 30, 1)

\* the worms after some ticks and draws
TwelveWormsWithHuesWitness ==
    /\ draws >= 2
    /\ Len(worms) = NUM_WORMS
    /\ worms[NUM_WORMS].hue = Dec(330, 1)

\* C8: each update shifts the trail by one place: entry i moves to i + 1, the
\* last entry is dropped, and so entry j is the head recorded j updates ago.
TrailIsFifo ==
    /\ [][pc = "borrowed" =>
            \A i \in DOMAIN worms :
                /\ Len(worms'[i].segments) = WORM_SEGMENTS
                /\ \A j \in 1..(WORM_SEGMENTS - 1) :
                      worms'[i].segments[j + 1] = worms[i].segments[j]]_vars
    /\ [](\A i \in DOMAIN worms : \A j \in 0..(WORM_SEGMENTS - 1) :
            j < Len(heads[i]) =>
                worms[i].segments[j + 1] = heads[i][Len(heads[i]) - j])

\* the whole trail consists of recorded heads, and the head has moved
TrailIsFifoWitness ==
    /\ Len(heads[1]) > WORM_SEGMENTS
    /\ worms[1].segments[WORM_SEGMENTS] = heads[1][Len(heads[1]) - WORM_SEGMENTS + 1]
    /\ worms[1].segments[WORM_SEGMENTS] # worms[1].segments[1]

\* C9: one callback per refresh makes one tick, then one draw, then one
\* request.  Between callbacks exactly one callback is registered and the
\* World is not borrowed; a running callback is the only one, borrows the
\* World once without panicking, and has nothing registered until its own
\* request; the draw that follows the k-th tick is the k-th draw.
FrameLoop ==
    /\ pending \in {0, 1}
    /\ pc # "panicked"
    /\ pc = "idle" => pending = 1 /\ ~borrowed
    /\ pc \in {"entered", "borrowed", "ticked", "drawn"} => pending = 0
    /\ pc = "requested" => pending = 1
    /\ borrowed <=> pc \in {"borrowed", "ticked", "drawn", "requested"}
    /\ time = Scale * (draws + (IF pc = "ticked" THEN 1 ELSE 0))

\* the fifth callback has requested the sixth and not yet returned
FrameLoopWitness ==
    /\ pc = "requested"
    /\ draws = 5
    /\ pending = 1

\* the coordinate the wrap step must produce from the moved coordinate c
WrapCase(c, dim) ==
    IF c > dim + margin THEN 0 - margin
    ELSE IF c < 0 - margin THEN dim + margin
    ELSE c

\* C10: on each axis the wrap acts on the moved coordinate: above
\* dimension + margin it becomes -margin, below -margin it becomes
\* dimension + margin, otherwise it is kept; the two checks never both fire.
WrapStepExact ==
    [][LET w == worms[1]
           a == Wobble(w, time')
           cx == MoveX(w, a)
           cy == MoveY(w, a)
       IN  /\ worms'[1].x = WrapCase(cx, width')
           /\ worms'[1].y = WrapCase(cy, height')
           /\ ~(cx < 0 - margin /\ WrapLow(cx, width') > width' + margin)
           /\ ~(cy < 0 - margin /\ WrapLow(cy, height') > height' + margin)]_vars

\* one update wrapped x upwards and y downwards
WrapStepExactWitness ==
    /\ Len(heads[1]) = 1
    /\ worms[1].segments[2] = <<0 - margin - Scale, CanvasHeight + margin + Scale>>
    /\ worms[1].x = width + margin
    /\ worms[1].y = 0 - margin

====
